---- MODULE Spec2Model ----
(***************************************************************************)
(* Betting-round state machine and round orchestrator of the Texas         *)
(* Hold'em simulator (src/game.py, class PokerSimulator).                  *)
(*                                                                         *)
(* Players are 0..NumPlayers-1.  Python lists are TLA+ sequences, so the   *)
(* list position i of the source is position i+1 here.  The cards are not  *)
(* part of the betting state: player_hands is the key set of the source's  *)
(* dict of hole cards, and the showdown winner, which the source computes  *)
(* from a uniformly random deal, is a nondeterministic non-empty subset of *)
(* the players shown down.  Chip amounts of a raise, which the source      *)
(* samples from a clamped normal distribution, are the integers of the     *)
(* clamping interval.                                                      *)
(*                                                                         *)
(* The hand evaluator and the showdown resolver (src/rules.py, class       *)
(* PokerRank) are modelled beside the game, over cards <<suit, rank>>, and *)
(* studied under their own specification RankSpec.                         *)
(***************************************************************************)
EXTENDS Integers, Sequences, FiniteSets, TLC

\* ---------------------------------------------------------------- bounds
NumPlayers == 4
BuyIn == 3
SmallBlind == 1
MaxHands == 2

BigBlind == SmallBlind * 2

Players == 0 .. (NumPlayers - 1)
None == "None"
Actions == {"fold", "check", "raise", "all-in"}
River == 3

VARIABLES
    n_players,        \* self.n_players
    last_bet,         \* self.last_bet
    n_rounds,         \* self.n_rounds
    player_money,     \* self.player_money
    order_of_play,    \* self.order_of_play
    decision_holder,  \* self.decision_holder
    player_bets,      \* self.player_bets
    player_hands,     \* keys of self.player_hands
    pc,               \* position of the play / poker_round / player_moves code
    stage,            \* index into stages of poker_round
    pos,              \* position of the for loop of player_moves
    players,          \* local `players` of player_moves
    n_players_loc,    \* local `n_players` of player_moves
    action,           \* local `action` of player_moves
    round_over,       \* value returned by player_moves
    winner,           \* argument of distribute_pot
    pr_pc,            \* position of the code of a PokerRank object (src/rules.py)
    pr_player_hands,  \* PokerRank.player_hands
    rank_player_hands,\* PokerRank.rank_player_hands
    pr_winner         \* value returned by PokerRank.get_winner

\* the variables of a PokerRank object
pr_vars == <<pr_pc, pr_player_hands, rank_player_hands, pr_winner>>

\* the variables of the PokerSimulator object and of its running methods
game_vars == <<n_players, last_bet, n_rounds, player_money, order_of_play,
               decision_holder, player_bets, player_hands, pc, stage, pos,
               players, n_players_loc, action, round_over, winner>>

vars == <<n_players, last_bet, n_rounds, player_money, order_of_play,
          decision_holder, player_bets, player_hands, pc, stage, pos,
          players, n_players_loc, action, round_over, winner,
          pr_pc, pr_player_hands, rank_player_hands, pr_winner>>

\* ------------------------------------------------------- pure operations

\* rotate with the direction reversed: first value becomes last
rotate_left(order) ==
    [i \in 1 .. Len(order) |-> IF i = Len(order) THEN order[1] ELSE order[i + 1]]

\* rotate: last value becomes first
rotate(order) ==
    [i \in 1 .. Len(order) |-> IF i = 1 THEN order[Len(order)] ELSE order[i - 1]]

\* The chip state a bet works on
ChipState(money, bets, lb, n) ==
    [player_money |-> money, player_bets |-> bets, last_bet |-> lb, n_players |-> n,
     valid |-> TRUE]

\* verify_bet without the clamp to the stack
verify_bet_unclamped(s, player, amount) ==
    LET money == [s.player_money EXCEPT ![player] = @ - amount]
        bets  == [s.player_bets EXCEPT ![player] = @ + amount]
    IN  [s EXCEPT !.player_money = money,
                  !.player_bets = bets,
                  !.last_bet = IF bets[player] > s.last_bet THEN bets[player] ELSE s.last_bet,
                  !.valid = TRUE]

\* verify_bet: clamp to the stack, move the chips, raise last_bet
verify_bet(s, player, amount) ==
    LET clamped == amount > s.player_money[player]
        amt     == IF clamped THEN s.player_money[player] ELSE amount
        money   == [s.player_money EXCEPT ![player] = @ - amt]
        bets    == [s.player_bets EXCEPT ![player] = @ + amt]
    IN  [s EXCEPT !.player_money = money,
                  !.player_bets = bets,
                  !.last_bet = IF bets[player] > s.last_bet THEN bets[player] ELSE s.last_bet,
                  !.valid = ~clamped]

\* fold: forced blind for the small/big blind seat, then one player less
fold(s, order, player) ==
    LET seat == order[player + 1]
        paid == IF seat = s.n_players - 2 /\ s.player_bets[player] < SmallBlind
                    THEN verify_bet(s, player, SmallBlind - s.player_bets[player])
                ELSE IF seat = s.n_players - 1 /\ s.player_bets[player] < BigBlind
                    THEN verify_bet(s, player, BigBlind - s.player_bets[player])
                ELSE s
    IN  [paid EXCEPT !.n_players = @ - 1]

\* check: match the last bet
check(s, player) ==
    IF s.player_bets[player] <= s.last_bet
        THEN verify_bet(s, player, s.last_bet - s.player_bets[player])
        ELSE s

\* all_in: the whole stack, at least the big blind
all_in(s, player) ==
    LET amount == s.player_money[player]
    IN  verify_bet(s, player, IF amount < BigBlind THEN BigBlind ELSE amount)

\* torch.clamp(sample, min=last_bet, max=player_money): max wins when min > max
RaiseAmounts(money, lb) ==
    IF lb > money THEN {money} ELSE lb .. money

\* raise_money with the sampled amount
raise_money(s, player, amount) ==
    IF s.player_money[player] < BigBlind
        THEN all_in(s, player)
        ELSE verify_bet(s, player, amount)

\* get_players_in_round: a raise or all-in resets the earlier players
IndexOf(order, player) == CHOOSE i \in 1 .. Len(order) : order[i] = player

\* get_players_in_round without the bound on the position: every other player
\* is reset
get_players_in_round_all(dh, order, player, act) ==
    IF act \in {"raise", "all-in"}
        THEN [q \in DOMAIN dh |->
                IF q # player /\ dh[q] \notin {"fold", "all-in"} THEN None ELSE dh[q]]
        ELSE dh

get_players_in_round(dh, order, player, act) ==
    IF act \in {"raise", "all-in"}
        THEN [q \in DOMAIN dh |->
                IF /\ \E i \in 1 .. (IndexOf(order, player) - 1) : order[i] = q
                   /\ dh[q] \notin {"fold", "all-in"}
                    THEN None ELSE dh[q]]
        ELSE dh

\* the loop's test after a fold, off by one
FoldEndsRound_zero(n) == n = 0

\* the loop's test after a fold
FoldEndsRound(n) == n = 1

\* is_game_over: exactly one player can still pay the big blind
is_game_over ==
    Cardinality({p \in DOMAIN player_money : player_money[p] >= BigBlind}) = 1

\* players_in of poker_round, and the reset between streets
players_in(dh) == {p \in DOMAIN dh : dh[p] # "fold"}

StreetReset(dh) ==
    [p \in DOMAIN dh |-> IF p \in players_in(dh) THEN None ELSE dh[p]]

\* ----------------------------------------------------------------- Init

\* no PokerRank object under study
NoPokerRank ==
    /\ pr_pc = "none"
    /\ pr_player_hands = <<>>
    /\ rank_player_hands = <<>>
    /\ pr_winner = {}

Init ==
    /\ NoPokerRank
    /\ n_rounds = 1
    /\ player_money = [p \in Players |-> BuyIn]
    /\ order_of_play = [i \in 1 .. NumPlayers |-> i - 1]
    /\ last_bet = BigBlind
    /\ n_players = NumPlayers
    /\ decision_holder = [p \in Players |-> None]
    /\ player_bets = [p \in Players |-> 0]
    /\ player_hands = Players
    /\ pc = "poker_round"
    /\ stage = 0
    /\ pos = 1
    /\ players = {}
    /\ n_players_loc = 0
    /\ action = "unset"
    /\ round_over = FALSE
    /\ winner = {}

\* -------------------------------------------------------------- actions

\* play: the user continues, instantiate deals the next hand
Instantiate ==
    /\ pc = "hand_over"
    /\ ~is_game_over
    /\ n_rounds < MaxHands
    /\ LET dealt == {p \in DOMAIN player_money : player_money[p] > 0}
       IN  /\ order_of_play' = IF n_rounds > 0 THEN rotate(order_of_play) ELSE order_of_play
           /\ last_bet' = BigBlind
           /\ n_players' = Cardinality(dealt)
           /\ decision_holder' = [p \in dealt |-> None]
           /\ player_bets' = [p \in dealt |-> 0]
           /\ player_hands' = dealt
    /\ n_rounds' = n_rounds + 1
    /\ pc' = "poker_round"
    /\ stage' = 0
    /\ winner' = {}
    /\ UNCHANGED <<player_money, pos, players, n_players_loc, action, round_over>>
    /\ UNCHANGED pr_vars

\* play: only one player can pay the big blind
GameOver ==
    /\ pc = "hand_over"
    /\ is_game_over
    /\ pc' = "game_over"
    /\ UNCHANGED <<n_players, last_bet, n_rounds, player_money, order_of_play,
                   decision_holder, player_bets, player_hands, stage, pos,
                   players, n_players_loc, action, round_over, winner>>
    /\ UNCHANGED pr_vars

\* play: the user stops
Quit ==
    /\ pc = "hand_over"
    /\ ~is_game_over
    /\ pc' = "stopped"
    /\ UNCHANGED <<n_players, last_bet, n_rounds, player_money, order_of_play,
                   decision_holder, player_bets, player_hands, stage, pos,
                   players, n_players_loc, action, round_over, winner>>
    /\ UNCHANGED pr_vars

\* player_moves, entry: the bots' hands are looked up for every key of the
\* decision map; a key without hole cards is a KeyError
EnterPlayerMoves ==
    /\ pc = "poker_round"
    /\ IF \E p \in DOMAIN decision_holder : p # 0 /\ p \notin player_hands
          THEN /\ pc' = "crashed"
               /\ UNCHANGED <<pos, players, n_players_loc, action>>
          ELSE /\ pc' = "loop"
               /\ players' = DOMAIN decision_holder
               /\ n_players_loc' = n_players
               /\ pos' = 1
               /\ action' = "unset"
    /\ UNCHANGED <<n_players, last_bet, n_rounds, player_money, order_of_play,
                   decision_holder, player_bets, player_hands, stage,
                   round_over, winner>>
    /\ UNCHANGED pr_vars

cur == order_of_play[pos]
NextPos == IF pos = Len(order_of_play) THEN 1 ELSE pos + 1

AllBroke == \A p \in players : player_money[p] = 0
AllOut == \A p \in DOMAIN decision_holder : decision_holder[p] \in {"fold", "all-in"}
AllDecided == \A p \in DOMAIN decision_holder : decision_holder[p] # None

Return(b) ==
    /\ pc' = "returned"
    /\ round_over' = b
    /\ UNCHANGED pos

\* player_moves: every player of the street is out of money
RoundOverNoMoney ==
    /\ pc = "loop"
    /\ AllBroke
    /\ Return(TRUE)
    /\ UNCHANGED <<n_players, last_bet, n_rounds, player_money, order_of_play,
                   decision_holder, player_bets, player_hands, stage,
                   players, n_players_loc, action, winner>>
    /\ UNCHANGED pr_vars

\* player_moves: every decision is fold or all-in
RoundOverAllOut ==
    /\ pc = "loop"
    /\ ~AllBroke
    /\ AllOut
    /\ Return(TRUE)
    /\ UNCHANGED <<n_players, last_bet, n_rounds, player_money, order_of_play,
                   decision_holder, player_bets, player_hands, stage,
                   players, n_players_loc, action, winner>>
    /\ UNCHANGED pr_vars

\* player_moves: every decision is made, the street is complete
StreetComplete ==
    /\ pc = "loop"
    /\ ~AllBroke
    /\ ~AllOut
    /\ AllDecided
    /\ Return(FALSE)
    /\ UNCHANGED <<n_players, last_bet, n_rounds, player_money, order_of_play,
                   decision_holder, player_bets, player_hands, stage,
                   players, n_players_loc, action, winner>>
    /\ UNCHANGED pr_vars

Falls == pc = "loop" /\ ~AllBroke /\ ~AllOut /\ ~AllDecided

\* the player without money is skipped but not marked all-in
AutoAllIn_unmarked ==
    /\ Falls
    /\ player_money[cur] = 0
    /\ pos' = NextPos
    /\ UNCHANGED <<n_players, last_bet, n_rounds, player_money, order_of_play,
                   decision_holder, player_bets, player_hands, pc, stage,
                   players, n_players_loc, action, round_over, winner>>
    /\ UNCHANGED pr_vars

\* player_moves: a player without money is marked all-in and skipped
AutoAllIn ==
    /\ Falls
    /\ player_money[cur] = 0
    /\ decision_holder' =
         [q \in DOMAIN decision_holder \cup {cur} |->
            IF q = cur THEN "all-in" ELSE decision_holder[q]]
    /\ pos' = NextPos
    /\ UNCHANGED <<n_players, last_bet, n_rounds, player_money, order_of_play,
                   player_bets, player_hands, pc, stage,
                   players, n_players_loc, action, round_over, winner>>
    /\ UNCHANGED pr_vars

\* player_moves: a folded or all-in player is skipped
Skip ==
    /\ Falls
    /\ player_money[cur] # 0
    /\ decision_holder[cur] \in {"fold", "all-in"}
    /\ pos' = NextPos
    /\ UNCHANGED <<n_players, last_bet, n_rounds, player_money, order_of_play,
                   decision_holder, player_bets, player_hands, pc, stage,
                   players, n_players_loc, action, round_over, winner>>
    /\ UNCHANGED pr_vars

Asked == Falls /\ player_money[cur] # 0 /\ decision_holder[cur] = None

\* the tail of a loop pass: the fold count and the test for one player left
AfterAction(act) ==
    IF act = "fold"
        THEN /\ n_players_loc' = n_players_loc - 1
             /\ IF FoldEndsRound(n_players_loc - 1)
                   THEN Return(TRUE)
                   ELSE /\ pos' = NextPos
                        /\ UNCHANGED <<pc, round_over>>
        ELSE /\ pos' = NextPos
             /\ UNCHANGED <<n_players_loc, pc, round_over>>

\* player_action: the chips of the action, then the decision is the action
player_action(s, order, player, act, amount) ==
    CASE act = "fold"   -> fold(s, order, player)
      [] act = "check"  -> check(s, player)
      [] act = "raise"  -> raise_money(s, player, amount)
      [] act = "all-in" -> all_in(s, player)

\* player_moves: the action of the player in turn and the rest of the pass
PlayerAct(act, amount) ==
    /\ LET s == player_action(ChipState(player_money, player_bets, last_bet, n_players),
                              order_of_play, cur, act, amount)
       IN  /\ player_money' = s.player_money
           /\ player_bets' = s.player_bets
           /\ last_bet' = s.last_bet
           /\ n_players' = s.n_players
    /\ decision_holder' =
         get_players_in_round([decision_holder EXCEPT ![cur] = act],
                              order_of_play, cur, act)
    /\ action' = act
    /\ AfterAction(act)
    /\ UNCHANGED <<n_rounds, order_of_play, player_hands, stage, players, winner>>
    /\ UNCHANGED pr_vars

\* player_moves: the player in turn is undecided and folds
Fold ==
    /\ Asked
    /\ PlayerAct("fold", 0)

\* player_moves: the player in turn is undecided and checks or calls
Check ==
    /\ Asked
    /\ PlayerAct("check", 0)

\* player_moves: the player in turn is undecided and raises
Raise ==
    /\ Asked
    /\ \E amount \in RaiseAmounts(player_money[cur], last_bet) : PlayerAct("raise", amount)

\* player_moves: the player in turn is undecided and goes all-in
AllIn ==
    /\ Asked
    /\ PlayerAct("all-in", 0)

\* player_moves: the player in turn has decided already; the loop still
\* tests the action of the previous player who acted
AlreadyDecided ==
    /\ Falls
    /\ player_money[cur] # 0
    /\ decision_holder[cur] \notin {"fold", "all-in", None}
    /\ AfterAction(action)
    /\ UNCHANGED <<n_players, last_bet, n_rounds, player_money, order_of_play,
                   decision_holder, player_bets, player_hands, stage,
                   players, action, winner>>
    /\ UNCHANGED pr_vars

\* the locals of player_moves, before they are assigned
NoLocals ==
    /\ pos' = 1
    /\ players' = {}
    /\ n_players_loc' = 0
    /\ action' = "unset"
    /\ round_over' = FALSE

\* poker_round: the street is complete and is not the river
NextStreet ==
    /\ pc = "returned"
    /\ ~(round_over \/ stage = River)
    /\ decision_holder' = StreetReset(decision_holder)
    /\ stage' = stage + 1
    /\ pc' = "poker_round"
    /\ NoLocals
    /\ UNCHANGED <<n_players, last_bet, n_rounds, player_money, order_of_play,
                   player_bets, player_hands, winner>>
    /\ UNCHANGED pr_vars

\* distribute_pot: prints the winner, pays nothing
distribute_pot(money, bets, w) == money

\* showdown: the hands of the players who did not fold are ranked, the
\* winners are passed to distribute_pot and the hand is over
Showdown ==
    /\ pc = "returned"
    /\ round_over \/ stage = River
    /\ LET shown == players_in(decision_holder)
       IN  IF shown = {} \/ ~(shown \subseteq player_hands)
              THEN /\ pc' = "crashed"
                   /\ UNCHANGED <<winner, player_money>>
              ELSE /\ \E w \in (SUBSET shown) \ {{}} :
                         /\ winner' = w
                         /\ player_money' = distribute_pot(player_money, player_bets, w)
                   /\ pc' = "hand_over"
    /\ NoLocals
    /\ UNCHANGED <<n_players, last_bet, n_rounds, order_of_play,
                   decision_holder, player_bets, player_hands, stage>>
    /\ UNCHANGED pr_vars

Next ==
    \/ Instantiate
    \/ GameOver
    \/ Quit
    \/ EnterPlayerMoves
    \/ RoundOverNoMoney
    \/ RoundOverAllOut
    \/ StreetComplete
    \/ AutoAllIn
    \/ Skip
    \/ Fold
    \/ Check
    \/ Raise
    \/ AllIn
    \/ AlreadyDecided
    \/ NextStreet
    \/ Showdown

Spec == Init /\ [][Next]_vars

\* the steps of poker_round: the program runs them one after the other and
\* every request for an action is answered
HandStep ==
    \/ EnterPlayerMoves
    \/ RoundOverNoMoney
    \/ RoundOverAllOut
    \/ StreetComplete
    \/ AutoAllIn
    \/ Skip
    \/ Fold
    \/ Check
    \/ Raise
    \/ AllIn
    \/ AlreadyDecided
    \/ NextStreet
    \/ Showdown

FairSpec == Init /\ [][Next]_vars /\ WF_vars(HandStep)

\* ------------------------------------------- hand evaluator (src/rules.py)

(***************************************************************************)
(* A card is the pair <<suit, rank>> of the source, suits 0..3 and ranks   *)
(* 0..12 (rank 0 is the two, rank 12 the ace).  A list of cards is the set *)
(* of its cards: the evaluator reads the order of a list only to choose    *)
(* between cards of equal rank, which changes neither the number of cards  *)
(* of the hand it returns, nor their ranks, nor the integer rank.          *)
(***************************************************************************)

\* the cards the one-hand inputs are drawn from
RankDeck ==
    {<<0, r>> : r \in 6 .. 12} \cup {<<1, r>> : r \in {0, 1, 2, 3, 11, 12}}
        \cup {<<2, r>> : r \in {10, 11, 12}} \cup {<<3, 12>>}

\* the cards the two-player deals are drawn from
ShowdownDeck ==
    {<<0, 11>>, <<1, 11>>, <<0, 10>>, <<1, 10>>, <<0, 0>>, <<1, 0>>,
     <<2, 1>>, <<2, 5>>, <<2, 12>>, <<3, 7>>}

\* the lengths of the lists a hand is ranked from
HandSizes == 5 .. 7

Min(a, b) == IF a < b THEN a ELSE b

RanksOf(cards) == {card[2] : card \in cards}

MaxOf(S) == CHOOSE x \in S : \A y \in S : y <= x

MinOf(S) == CHOOSE x \in S : \A y \in S : x <= y

\* number of cards of the rank
CountRank(cards, r) == Cardinality({card \in cards : card[2] = r})

\* number of cards of the suit
CountSuit(cards, s) == Cardinality({card \in cards : card[1] = s})

\* the ranks that np.unique counts n times
RanksCounted(cards, n) == {r \in RanksOf(cards) : CountRank(cards, r) = n}

\* np.argmax(np.bincount(ranks)): the lowest of the most frequent ranks
argmax_rank(cards) ==
    MinOf({r \in RanksOf(cards) :
              \A q \in RanksOf(cards) : CountRank(cards, q) <= CountRank(cards, r)})

\* np.argmax(np.bincount(suits)): the lowest of the most frequent suits
argmax_suit(cards) ==
    LET suits == {card[1] : card \in cards}
    IN  MinOf({s \in suits :
                  \A t \in suits : CountSuit(cards, t) <= CountSuit(cards, s)})

\* the first n cards of the list sorted by rank, highest first
RECURSIVE highest_cards(_, _)
highest_cards(cards, n) ==
    IF n = 0 \/ cards = {} THEN {}
    ELSE LET card == CHOOSE c \in cards : \A d \in cards : d[2] <= c[2]
         IN  {card} \cup highest_cards(cards \ {card}, n - 1)

\* the ranks of the list sorted by rank, highest first
RECURSIVE sorted_ranks(_)
sorted_ranks(cards) ==
    IF cards = {} THEN <<>>
    ELSE LET card == CHOOSE c \in cards : \A d \in cards : d[2] <= c[2]
         IN  <<card[2]>> \o sorted_ranks(cards \ {card})

\* np.unique(ranks): the distinct ranks in increasing order
RECURSIVE unique(_)
unique(R) ==
    IF R = {} THEN <<>> ELSE <<MinOf(R)>> \o unique(R \ {MinOf(R)})

no_hand == [is |-> FALSE, hand |-> {}]

get_rank_of_highest_card(cards) == MaxOf(RanksOf(cards))

is_flush(cards) ==
    IF Cardinality(cards) < 5 THEN no_hand
    ELSE IF \E s \in 0 .. 3 : CountSuit(cards, s) >= 5
         THEN [is |-> TRUE,
               hand |-> highest_cards({card \in cards : card[1] = argmax_suit(cards)}, 5)]
         ELSE no_hand

\* ranks[k:k+5] of the source is positions k+1..k+5 of the sequence
is_straight(cards) ==
    LET ranks == unique(RanksOf(cards))
        slice(k) == {ranks[i] : i \in (k + 1) .. Min(k + 5, Len(ranks))}
        diff_is_1(k) == \A i \in (k + 1) .. (Min(k + 5, Len(ranks)) - 1) :
                           ranks[i + 1] - ranks[i] = 1
        found(k) == diff_is_1(k) /\ Cardinality(slice(k)) = 5
        \* unique_ranks: one card of each rank of the slice
        unique_ranks(k) == {CHOOSE card \in cards : card[2] = r : r \in slice(k)}
    IN  IF Len(ranks) < 5 THEN no_hand
        ELSE IF found(2) THEN [is |-> TRUE, hand |-> unique_ranks(2)]
        ELSE IF found(1) THEN [is |-> TRUE, hand |-> unique_ranks(1)]
        ELSE IF found(0) THEN [is |-> TRUE, hand |-> unique_ranks(0)]
        ELSE no_hand

is_royal_flush(hand) ==
    LET flush == is_flush(hand)
        straight == IF flush.is THEN is_straight(flush.hand) ELSE no_hand
    IN  IF flush.is /\ straight.is /\ get_rank_of_highest_card(hand) = 12
        THEN [is |-> TRUE, hand |-> straight.hand]
        ELSE no_hand

is_straight_flush(hand) ==
    LET flush == is_flush(hand)
        straight == IF flush.is THEN is_straight(flush.hand) ELSE no_hand
    IN  IF flush.is /\ straight.is
        THEN [is |-> TRUE, hand |-> straight.hand]
        ELSE no_hand

is_4_of_a_kind(cards) ==
    IF RanksCounted(cards, 4) # {}
    THEN LET four_of_a_kind_cards == {card \in cards : card[2] = argmax_rank(cards)}
         IN  [is |-> TRUE,
              hand |-> four_of_a_kind_cards
                          \cup highest_cards(cards \ four_of_a_kind_cards, 1)]
    ELSE no_hand

is_full_house(cards) ==
    IF RanksCounted(cards, 3) # {} /\ RanksCounted(cards, 2) # {}
    THEN LET three_of_a_kind_cards == {card \in cards : card[2] = argmax_rank(cards)}
             rest == cards \ three_of_a_kind_cards
             two_of_a_kind_cards == {card \in rest : card[2] = argmax_rank(rest)}
         IN  [is |-> TRUE, hand |-> three_of_a_kind_cards \cup two_of_a_kind_cards]
    ELSE no_hand

is_3_of_a_kind(cards) ==
    IF RanksCounted(cards, 3) # {}
    THEN LET three_of_a_kind_cards == {card \in cards : card[2] = argmax_rank(cards)}
         IN  [is |-> TRUE,
              hand |-> three_of_a_kind_cards
                          \cup highest_cards(cards \ three_of_a_kind_cards, 2)]
    ELSE no_hand

is_2_pairs(cards) ==
    IF Cardinality(RanksCounted(cards, 2)) = 2
    THEN LET hand == {card \in cards : card[2] \in RanksCounted(cards, 2)}
         IN  [is |-> TRUE, hand |-> hand \cup highest_cards(cards \ hand, 1)]
    ELSE no_hand

is_1_pair(cards) ==
    IF RanksCounted(cards, 2) # {}
    THEN LET pair == MinOf(RanksCounted(cards, 2))
             hand == {card \in cards : card[2] = pair}
         IN  IF Cardinality(cards \ hand) < 3 THEN [is |-> TRUE, hand |-> hand]
             ELSE [is |-> TRUE, hand |-> hand \cup highest_cards(cards \ hand, 3)]
    ELSE no_hand

is_high_card(cards) == [is |-> TRUE, hand |-> highest_cards(cards, 5)]

get_rank_of_4_of_a_kind(hand) == 91 + MinOf(RanksCounted(hand, 4))

get_rank_of_3_of_a_kind(hand) == 39 + MinOf(RanksCounted(hand, 3))

get_rank_of_2_pairs(hand) == 26 + MaxOf(RanksCounted(hand, 2))

get_rank_of_1_pair(hand) == 13 + MinOf(RanksCounted(hand, 2))

get_rank_full_house(hand) == 78 + MinOf(RanksCounted(hand, 3))

get_rank_straight(hand) == 52 + MaxOf(RanksOf(hand))

get_rank_flush(hand) ==
    65 + MaxOf(RanksOf({card \in hand : card[1] = argmax_suit(hand)}))

get_rank_straight_flush(hand) ==
    104 + MaxOf(RanksOf({card \in hand : card[1] = argmax_suit(hand)}))

get_rank_royal_flush(hand) == 117

\* the hand found for the cards and its integer rank: the checks are tried
\* from the royal flush down and the first that succeeds decides
rank_hand_of_player(cards) ==
    IF is_royal_flush(cards).is
    THEN [hand |-> is_royal_flush(cards).hand,
          rank |-> get_rank_royal_flush(is_royal_flush(cards).hand)]
    ELSE IF is_straight_flush(cards).is
    THEN [hand |-> is_straight_flush(cards).hand,
          rank |-> get_rank_straight_flush(is_straight_flush(cards).hand)]
    ELSE IF is_4_of_a_kind(cards).is
    THEN [hand |-> is_4_of_a_kind(cards).hand,
          rank |-> get_rank_of_4_of_a_kind(is_4_of_a_kind(cards).hand)]
    ELSE IF is_full_house(cards).is
    THEN [hand |-> is_full_house(cards).hand,
          rank |-> get_rank_full_house(is_full_house(cards).hand)]
    ELSE IF is_flush(cards).is
    THEN [hand |-> is_flush(cards).hand,
          rank |-> get_rank_flush(is_flush(cards).hand)]
    ELSE IF is_straight(cards).is
    THEN [hand |-> is_straight(cards).hand,
          rank |-> get_rank_straight(is_straight(cards).hand)]
    ELSE IF is_3_of_a_kind(cards).is
    THEN [hand |-> is_3_of_a_kind(cards).hand,
          rank |-> get_rank_of_3_of_a_kind(is_3_of_a_kind(cards).hand)]
    ELSE IF is_2_pairs(cards).is
    THEN [hand |-> is_2_pairs(cards).hand,
          rank |-> get_rank_of_2_pairs(is_2_pairs(cards).hand)]
    ELSE IF is_1_pair(cards).is
    THEN [hand |-> is_1_pair(cards).hand,
          rank |-> get_rank_of_1_pair(is_1_pair(cards).hand)]
    ELSE [hand |-> is_high_card(cards).hand,
          rank |-> get_rank_of_highest_card(is_high_card(cards).hand)]

\* hand1 has the higher card at the first position where the sorted hands differ
higher_card_first(hand1, hand2) ==
    \E i \in 1 .. 5 :
        /\ sorted_ranks(hand1)[i] > sorted_ranks(hand2)[i]
        /\ \A j \in 1 .. (i - 1) : sorted_ranks(hand1)[j] = sorted_ranks(hand2)[j]

get_winner(ranks, hands) ==
    LET highest_rank == MaxOf({ranks[p] : p \in DOMAIN ranks})
        players_with_highest_rank == {p \in DOMAIN ranks : ranks[p] = highest_rank}
        players_removed ==
            {p \in players_with_highest_rank :
                \E q \in players_with_highest_rank \ {p} :
                    higher_card_first(hands[q], hands[p])}
    IN  IF Cardinality(players_with_highest_rank) = 1
        THEN players_with_highest_rank
        ELSE players_with_highest_rank \ players_removed

\* the PokerSimulator object the hand evaluator is studied beside: the game
\* before its first hand, which no step of the evaluator changes
GameIdle ==
    /\ n_rounds = 1
    /\ n_players = NumPlayers
    /\ last_bet = BigBlind
    /\ player_money = [p \in Players |-> BuyIn]
    /\ order_of_play = [i \in 1 .. NumPlayers |-> i - 1]
    /\ decision_holder = [p \in Players |-> None]
    /\ player_bets = [p \in Players |-> 0]
    /\ player_hands = {}
    /\ pc = "stopped"
    /\ stage = 0
    /\ pos = 1
    /\ players = {}
    /\ n_players_loc = 0
    /\ action = "unset"
    /\ round_over = FALSE
    /\ winner = {}

\* the arguments of PokerRank(player_hands, table_cards), joined as the
\* first statement of the constructor joins them: one player with a list of
\* 5 to 7 cards, or two players with two cards each and five table cards
RankInit ==
    /\ GameIdle
    /\ pr_pc = "init"
    /\ rank_player_hands = <<>>
    /\ pr_winner = {}
    /\ \/ \E cards \in SUBSET RankDeck :
            /\ Cardinality(cards) \in HandSizes
            /\ pr_player_hands = (0 :> cards)
       \/ \E table_cards \in SUBSET ShowdownDeck :
            /\ Cardinality(table_cards) = 5
            /\ \E hand0 \in SUBSET (ShowdownDeck \ table_cards) :
                 /\ Cardinality(hand0) = 2
                 /\ \E hand1 \in SUBSET (ShowdownDeck \ (table_cards \cup hand0)) :
                      /\ Cardinality(hand1) = 2
                      /\ pr_player_hands =
                            (0 :> (hand0 \cup table_cards)) @@ (1 :> (hand1 \cup table_cards))

\* the loop of the constructor: every player's cards are ranked and
\* replaced by the hand found
RankHands ==
    /\ pr_pc = "init"
    /\ rank_player_hands' =
          [p \in DOMAIN pr_player_hands |-> rank_hand_of_player(pr_player_hands[p]).rank]
    /\ pr_player_hands' =
          [p \in DOMAIN pr_player_hands |-> rank_hand_of_player(pr_player_hands[p]).hand]
    /\ pr_pc' = "ranked"
    /\ UNCHANGED pr_winner
    /\ UNCHANGED game_vars

GetWinner ==
    /\ pr_pc = "ranked"
    /\ pr_winner' = get_winner(rank_player_hands, pr_player_hands)
    /\ pr_pc' = "done"
    /\ UNCHANGED <<pr_player_hands, rank_player_hands>>
    /\ UNCHANGED game_vars

RankNext ==
    \/ RankHands
    \/ GetWinner

RankSpec == RankInit /\ [][RankNext]_vars

\* ------------------------------------------------------------ properties

RECURSIVE SumOver(_, _)
SumOver(f, S) ==
    IF S = {} THEN 0
    ELSE LET x == CHOOSE y \in S : TRUE IN f[x] + SumOver(f, S \ {x})

\* a step of the betting loop in which the player in turn takes action a
Takes(a) == Asked /\ action' = a

\* C1: when the player at position i of the turn order raises or goes all-in
\* and the amount to call grows, every earlier player who is not folded or
\* all-in is undecided after the step, every later player keeps their state,
\* and the acting player's state is the action taken (Raised for a raise).
RaiseReopensAction ==
    [][\A a \in {"raise", "all-in"} :
          (Takes(a) /\ last_bet' > last_bet) =>
             /\ DOMAIN decision_holder' = DOMAIN decision_holder
             /\ decision_holder'[cur] = a
             /\ \A j \in 1 .. Len(order_of_play) :
                   LET q == order_of_play[j]
                   IN  q \in DOMAIN decision_holder =>
                         /\ (j < pos /\ decision_holder[q] \notin {"fold", "all-in"})
                               => decision_holder'[q] = None
                         /\ j > pos => decision_holder'[q] = decision_holder[q]
      ]_vars

\* C1 witness: the last player in turn has just raised above the big blind
\* and the two players before, who had called the big blind, are undecided
\* again.
RaiseReopensReached ==
    /\ pc = "loop"
    /\ action = "raise"
    /\ pos = 1
    /\ decision_holder[order_of_play[NumPlayers]] = "raise"
    /\ last_bet > BigBlind
    /\ \A j \in 1 .. 2 :
          /\ decision_holder[order_of_play[j]] = None
          /\ player_bets[order_of_play[j]] = BigBlind

\* C2: a fold that leaves exactly one player of the hand not folded ends the
\* betting loop at once with "round over", whatever seats are undecided; when
\* the one entry of the decision map left is a seat without chips, the loop
\* returns at its next test; in both cases nobody is asked to act and the
\* hand goes to the showdown.
FoldToOneEndsHand ==
    /\ [][(Takes("fold")
            /\ Cardinality(players_in(decision_holder') \cap player_hands) = 1)
             => (pc' = "returned" /\ round_over')]_vars
    /\ [][(Takes("fold") /\ Cardinality(players_in(decision_holder')) = 1)
             => \/ pc' = "returned" /\ round_over'
                \/ pc' = "loop" /\ (AllBroke \/ AllOut)']_vars
    /\ [][(pc = "returned" /\ round_over) => pc' \in {"hand_over", "crashed"}]_vars

\* C2 witness: the loop has returned after a fold, and the one player left
\* had not decided yet.
FoldToOneReached ==
    /\ pc = "returned"
    /\ round_over
    /\ action = "fold"
    /\ \E p \in DOMAIN decision_holder :
          /\ decision_holder[p] = None
          /\ players_in(decision_holder) = {p}

\* C3: a player whose state is Folded stays Folded for the rest of the hand,
\* and is not asked to act.
FoldedIsTerminal ==
    /\ [][n_rounds' = n_rounds =>
            \A p \in DOMAIN decision_holder :
               decision_holder[p] = "fold" =>
                  (p \in DOMAIN decision_holder' /\ decision_holder'[p] = "fold")]_vars
    /\ [](Asked => decision_holder[cur] # "fold")

\* C4: a player whose state is AllIn stays AllIn for the rest of the hand,
\* the reset between streets included.
AllInIsTerminal ==
    [][n_rounds' = n_rounds =>
         \A p \in DOMAIN decision_holder :
            decision_holder[p] = "all-in" =>
               (p \in DOMAIN decision_holder' /\ decision_holder'[p] = "all-in")]_vars

\* C5: check/call: nothing moves when the contribution meets the amount to
\* call; else the difference moves when the stack covers it, and the state is
\* Called; else the whole stack moves and the state set is AllIn.
CheckCallTransition ==
    [][Takes("check") =>
         LET p == cur
             diff == last_bet - player_bets[p]
         IN  IF player_bets[p] >= last_bet
                THEN /\ player_money' = player_money
                     /\ player_bets' = player_bets
                     /\ decision_holder'[p] = "check"
             ELSE IF player_money[p] >= diff
                THEN /\ player_money'[p] = player_money[p] - diff
                     /\ player_bets'[p] = player_bets[p] + diff
                     /\ decision_holder'[p] = "check"
             ELSE    /\ player_money'[p] = 0
                     /\ player_bets'[p] = player_bets[p] + player_money[p]
                     /\ decision_holder'[p] = "all-in"]_vars

\* C6: raise: the amount moved is at least the amount to call unless the
\* stack is smaller, and at most the stack; moving the whole stack sets the
\* state AllIn, otherwise the state is Raised and the amount to call is the
\* raiser's new contribution.
RaiseTransition ==
    [][Takes("raise") =>
         LET p == cur
             moved == player_money[p] - player_money'[p]
         IN  /\ moved <= player_money[p]
             /\ player_money[p] >= last_bet => moved >= last_bet
             /\ player_bets'[p] = player_bets[p] + moved
             /\ IF moved = player_money[p]
                   THEN decision_holder'[p] = "all-in"
                   ELSE /\ decision_holder'[p] = "raise"
                        /\ last_bet' = player_bets'[p]]_vars

\* the step of the showdown that calls distribute_pot
PaysPot == pc = "returned" /\ pc' = "hand_over"
Pot == SumOver(player_bets, DOMAIN player_bets)

\* C7: at the end of a hand the whole pot goes to the winner, or in equal
\* shares to the tied winners, so every hand starts with the same total of
\* stacks.
PotIsPaidOut ==
    /\ [][PaysPot =>
            /\ \A w \in winner' :
                  Cardinality(winner') * (player_money'[w] - player_money[w]) = Pot
            /\ \A q \in DOMAIN player_money \ winner' :
                  player_money'[q] = player_money[q]]_vars
    /\ []((pc = "poker_round" /\ stage = 0) =>
             SumOver(player_money, DOMAIN player_money) = NumPlayers * BuyIn)

\* C8: a single winner who is all-in for less than the amount to call is paid
\* their own contribution level from every contributor, and the others'
\* excess goes to the others only.
SidePotIsCapped ==
    [][\A w \in DOMAIN player_bets :
          (/\ PaysPot
           /\ winner' = {w}
           /\ player_money[w] = 0
           /\ player_bets[w] < last_bet)
          => /\ player_money'[w] =
                  SumOver([c \in DOMAIN player_bets |->
                              Min(player_bets[c], player_bets[w])],
                          DOMAIN player_bets)
             /\ SumOver(player_money', DOMAIN player_bets \ {w})
                  = SumOver(player_money, DOMAIN player_bets \ {w})
                    + Pot - player_money'[w]]_vars

\* C9: a player with no chips at the start of a hand has no hole cards, no
\* entry in the decision map, no turn, and is not shown down.
EliminatedTakeNoPart ==
    \A p \in Players \ player_hands :
        /\ p \notin DOMAIN decision_holder
        /\ ~(Asked /\ cur = p)

\* C10: the turn order is a permutation of the seats, a new hand rotates it
\* by one seat (last becomes first), and nothing else changes it.
TurnOrderRotates ==
    /\ [](/\ Len(order_of_play) = NumPlayers
          /\ {order_of_play[i] : i \in 1 .. NumPlayers} = Players)
    /\ [][IF n_rounds' # n_rounds
             THEN /\ order_of_play'[1] = order_of_play[NumPlayers]
                  /\ \A i \in 2 .. NumPlayers : order_of_play'[i] = order_of_play[i - 1]
             ELSE order_of_play' = order_of_play]_vars

\* C10 witness: betting in the second hand, the last seat of the first hand
\* now first, after folds, raises and street changes in the first hand.
TurnOrderRotated ==
    /\ n_rounds = 2
    /\ pc = "loop"
    /\ stage > 0
    /\ order_of_play[1] = NumPlayers - 1
    /\ order_of_play[2] = 0

\* the blind seats of a hand: the seat test of fold with the number of
\* players dealt into the hand
SmallBlindSeat(p) == order_of_play[p + 1] = Cardinality(player_hands) - 2
BigBlindSeat(p) == order_of_play[p + 1] = Cardinality(player_hands) - 1

\* C11: a fold moves chips exactly when the folder sits in the small- or
\* big-blind seat of the hand and has contributed less than that blind; the
\* contribution is then raised to the blind, clamped to the stack; any other
\* fold leaves all stacks and contributions as they are.
FoldPaysOnlyOwedBlind ==
    [][Takes("fold") =>
         LET p == cur
             owed == IF SmallBlindSeat(p) /\ player_bets[p] < SmallBlind
                        THEN SmallBlind - player_bets[p]
                     ELSE IF BigBlindSeat(p) /\ player_bets[p] < BigBlind
                        THEN BigBlind - player_bets[p]
                     ELSE 0
             amt == Min(owed, player_money[p])
         IN  /\ player_money' = [player_money EXCEPT ![p] = @ - amt]
             /\ player_bets' = [player_bets EXCEPT ![p] = @ + amt]]_vars

\* the chips an action asks of the player in turn: the difference to call,
\* the stack or the big blind of an all-in, the blind a fold owes by the seat
\* test of fold; a raise of a stack of at least the big blind asks for an
\* amount within the stack
Required(a) ==
    CASE a = "check"  -> last_bet - player_bets[cur]
      [] a = "all-in" -> IF player_money[cur] < BigBlind THEN BigBlind ELSE player_money[cur]
      [] a = "raise"  -> IF player_money[cur] < BigBlind THEN BigBlind ELSE 0
      [] a = "fold"   ->
            IF order_of_play[cur + 1] = n_players - 2 /\ player_bets[cur] < SmallBlind
               THEN SmallBlind - player_bets[cur]
            ELSE IF order_of_play[cur + 1] = n_players - 1 /\ player_bets[cur] < BigBlind
               THEN BigBlind - player_bets[cur]
            ELSE 0

\* C16: no stack is ever negative, and an action never fails: the chips that
\* leave the acting player's stack arrive in their contribution, nobody else's
\* chips move, and an action that asks for more than the stack moves exactly
\* the stack.
NoNegativeStack ==
    /\ [](\A p \in DOMAIN player_money : player_money[p] >= 0)
    /\ [][\A a \in Actions :
            Takes(a) =>
               /\ pc' \in {"loop", "returned"}
               /\ player_money'[cur] >= 0
               /\ player_money'[cur] + player_bets'[cur]
                     = player_money[cur] + player_bets[cur]
               /\ \A q \in DOMAIN player_bets \ {cur} :
                     /\ player_money'[q] = player_money[q]
                     /\ player_bets'[q] = player_bets[q]
               /\ Required(a) > player_money[cur] =>
                     /\ player_money'[cur] = 0
                     /\ player_bets'[cur] = player_bets[cur] + player_money[cur]
               /\ (a = "check" /\ Required(a) <= player_money[cur]) =>
                     player_bets'[cur] = last_bet]_vars

\* C16 witness: a call that asked for more than the stack has put the whole
\* stack in: the caller has no chips and less than the amount to call.
ShortCallReached ==
    /\ pc = "loop"
    /\ action = "check"
    /\ \E p \in DOMAIN decision_holder :
          /\ decision_holder[p] = "check"
          /\ player_money[p] = 0
          /\ player_bets[p] > 0
          /\ player_bets[p] < last_bet

\* C17: when the loop ends a street as complete, every player whose state is
\* Called or Raised has contributed the amount to call, so nobody in the hand
\* with chips left has paid less than the last raise.
BetsMatchedAtStreetEnd ==
    (pc = "returned" /\ ~round_over) =>
        \A p \in DOMAIN decision_holder :
            decision_holder[p] \in {"check", "raise"} => player_bets[p] = last_bet

\* C18: the loop's count of players goes down by exactly one with a fold and
\* with nothing else, and when the loop ends the hand because the count is 1,
\* exactly one player of the decision map is not folded.
FoldCountIsExact ==
    /\ [][(pc = "loop" /\ n_players_loc' # n_players_loc) =>
             (Takes("fold") /\ n_players_loc' = n_players_loc - 1)]_vars
    /\ [][(pc = "loop" /\ pc' = "returned" /\ n_players_loc' # n_players_loc) =>
             Cardinality(players_in(decision_holder')) = 1]_vars

\* C20: a raise or all-in that leaves the amount to call as it was leaves the
\* decision state of every other player as it was.
NoReopenWithoutIncrease ==
    [][\A a \in {"raise", "all-in"} :
          (Takes(a) /\ last_bet' = last_bet) =>
             \A q \in DOMAIN decision_holder \ {cur} :
                decision_holder'[q] = decision_holder[q]]_vars

\* C19: the betting loop of every street returns, a hand has at most four
\* streets, and a hand in which every seat starts with chips reaches the end
\* of its showdown.
BettingTerminates ==
    /\ [](stage <= River)
    /\ (pc = "loop") ~> (pc = "returned")
    /\ (pc = "poker_round" /\ stage = 0 /\ player_hands = Players) ~> (pc = "hand_over")

\* C19 witness: the loop of the river has returned after a raise had reopened
\* the action in that street.
RiverLoopReturned ==
    /\ pc = "returned"
    /\ stage = River
    /\ action \in Actions
    /\ \E p \in DOMAIN decision_holder : decision_holder[p] = "raise"
    /\ \E p \in DOMAIN decision_holder : decision_holder[p] = "check"

\* ---------------------------------------- properties of the hand evaluator

\* the hand categories, weakest to strongest
HighCard == 0
OnePair == 1
TwoPair == 2
ThreeOfAKind == 3
Straight == 4
Flush == 5
FullHouse == 6
FourOfAKind == 7
StraightFlush == 8
RoyalFlush == 9

\* the category an integer rank of the evaluator stands for
CategoryOf(rank) == rank \div 13

FiveCardHands(cards) == {h \in SUBSET cards : Cardinality(h) = 5}

\* highest rank of the straight the five cards form, the ace counting low in
\* A-2-3-4-5; -1 when they form none
StraightHigh(h) ==
    IF Cardinality(RanksOf(h)) # 5 THEN -1
    ELSE IF MaxOf(RanksOf(h)) - MinOf(RanksOf(h)) = 4 THEN MaxOf(RanksOf(h))
    ELSE IF RanksOf(h) = {12, 0, 1, 2, 3} THEN 3
    ELSE -1

\* category of exactly five cards, by the rules of poker
CategoryOfFive(h) ==
    LET flush == Cardinality({card[1] : card \in h}) = 1
    IN  IF flush /\ StraightHigh(h) = 12 THEN RoyalFlush
        ELSE IF flush /\ StraightHigh(h) >= 0 THEN StraightFlush
        ELSE IF RanksCounted(h, 4) # {} THEN FourOfAKind
        ELSE IF RanksCounted(h, 3) # {} /\ RanksCounted(h, 2) # {} THEN FullHouse
        ELSE IF flush THEN Flush
        ELSE IF StraightHigh(h) >= 0 THEN Straight
        ELSE IF RanksCounted(h, 3) # {} THEN ThreeOfAKind
        ELSE IF Cardinality(RanksCounted(h, 2)) = 2 THEN TwoPair
        ELSE IF RanksCounted(h, 2) # {} THEN OnePair
        ELSE HighCard

\* strongest category over all five-card sub-combinations
StrongestCategory(cards) == MaxOf({CategoryOfFive(h) : h \in FiveCardHands(cards)})

\* C12: when the constructor ranks a list of 5 to 7 distinct cards, the hand
\* it stores has exactly 5 cards and the category of the rank it reports is
\* the strongest category over all 5-card sub-combinations of the list.
EvaluatorMatchesBruteForce ==
    [][RankHands =>
          \A p \in DOMAIN pr_player_hands :
             /\ Cardinality(pr_player_hands'[p]) = 5
             /\ CategoryOf(rank_player_hands'[p]) = StrongestCategory(pr_player_hands[p])]_vars

\* the strongest hand of the cards is the straight A-2-3-4-5
WheelIsBest(cards) ==
    /\ {12, 0, 1, 2, 3} \subseteq RanksOf(cards)
    /\ StrongestCategory(cards) = Straight
    /\ \A h \in FiveCardHands(cards) : StraightHigh(h) <= 3

\* C13: cards whose ranks include 12,0,1,2,3 in mixed suits and that hold
\* nothing stronger are ranked as a Straight whose high card is rank 3.
WrapAroundStraight ==
    [][RankHands =>
          \A p \in DOMAIN pr_player_hands :
             WheelIsBest(pr_player_hands[p]) =>
                rank_player_hands'[p] = get_rank_straight({<<0, 3>>})]_vars

\* the cards hold ranks 8..12 of one suit
HoldsRoyal(cards) == \E s \in 0 .. 3 : {<<s, r>> : r \in 8 .. 12} \subseteq cards

\* C14: cards are ranked RoyalFlush exactly when they hold ranks 8..12 of one
\* suit, so a lower straight flush beside an ace of another suit is not, and
\* every rank of category StraightFlush is below the rank of the royal flush.
RoyalFlushExactly ==
    [][RankHands =>
          \A p \in DOMAIN pr_player_hands :
             /\ (CategoryOf(rank_player_hands'[p]) = RoyalFlush)
                   <=> HoldsRoyal(pr_player_hands[p])
             /\ (CategoryOf(rank_player_hands'[p]) = StraightFlush)
                   => rank_player_hands'[p] < get_rank_royal_flush({})]_vars

\* the cards of the hand ordered by how often their rank occurs, then by rank
RECURSIVE grouped_ranks(_, _)
grouped_ranks(h, left) ==
    IF left = {} THEN <<>>
    ELSE LET weight(c) == 13 * CountRank(h, c[2]) + c[2]
             card == CHOOSE c \in left : \A d \in left : weight(d) <= weight(c)
         IN  <<card[2]>> \o grouped_ranks(h, left \ {card})

\* (category, primaryRank, secondaryRank, kickers descending) of five cards
StrengthTuple(h) ==
    IF StraightHigh(h) >= 0
    THEN <<CategoryOfFive(h), StraightHigh(h), 0, 0, 0, 0>>
    ELSE <<CategoryOfFive(h)>> \o grouped_ranks(h, h)

LexLess(a, b) ==
    \E i \in 1 .. Len(a) : a[i] < b[i] /\ \A j \in 1 .. (i - 1) : a[j] = b[j]

\* C15: get_winner returns exactly the players whose 5-card hand is maximal
\* under the lexicographic order of (category, primaryRank, secondaryRank,
\* kickers descending); players are returned together only on equal tuples.
ShowdownOrdering ==
    [][GetWinner =>
          pr_winner' =
             {p \in DOMAIN pr_player_hands :
                 \A q \in DOMAIN pr_player_hands :
                    ~LexLess(StrengthTuple(pr_player_hands[p]),
                             StrengthTuple(pr_player_hands[q]))}]_vars

====
